---- MODULE Spec2Model ----
(***************************************************************************)
(* Model of lbi.sequential.base.Sequential: the dataset store filled by    *)
(* add_data, the simulation driver, the early-stopped trainer and the      *)
(* round loop of run().                                                    *)
(*                                                                         *)
(* Rows are small integers.  Python's 0-based row indices are 1-based      *)
(* here.  A validation loss is the pair <<total, 1 + number of batches>>,  *)
(* the numerator and the denominator of line 193; np.inf is <<1, 0>>.      *)
(* Batch losses are finite.                                                *)
(*                                                                         *)
(* Spec follows one run() on a fresh object; SpecApi follows direct calls  *)
(* of add_data, row-aligned or not, on a fresh object.  In both, the       *)
(* caller may call the sampling functions (hmc, sample_posterior,          *)
(* sample_prior, log_posterior) whenever run() is not executing.           *)
(***************************************************************************)
EXTENDS Integers, Sequences, FiniteSets, TLC

\* ------------------------------------------------------------------ bounds
MaxRounds == 2
MaxBatch == 2
MaxPatience == 1
MaxEpochs == 3
MaxApiRows == 2
MaxStore == 3

\* ------------------------------------------------- defaults of the source
HmcWalkerStepsDefault == 200
HmcBurnInDefault == 100
McmcStepsDefault == 250
McmcDiscardDefault == 50

\* values of a parameter row
ParamVals == {1, 2}
\* values of a batch loss
LossVals == {1, 2}

\* num_samples of a direct call of a sampling function
NumSamplesVals == {3}

\* valid_fraction as <<numerator, denominator>>; binary fractions, so the
\* float product of line 123 is exact
ValidFractions == {<<0, 1>>, <<1, 4>>, <<1, 2>>}

Configs ==
  [ n_rounds : {MaxRounds},
    num_initial_samples : {2},
    num_samples_per_round : {1},
    sims_per_model : {1, 2},
    mcmc_steps : {McmcStepsDefault},
    mcmc_discard : {McmcDiscardDefault},
    max_n_epochs : {MaxEpochs},
    valid_fraction : ValidFractions,
    batch_size : 1..MaxBatch,
    patience : 0..MaxPatience,
    scaler : BOOLEAN ]

VARIABLES
  cfg,                        \* constructor arguments kept on self
  train_data, train_params,   \* self.data[...]
  valid_data, valid_params,
  pc,                         \* position of the caller
  in_run,                     \* run() is executing
  r,                          \* round index of run()
  prior_samples, sims,        \* locals of run() / result of simulate()
  err,                        \* exception raised by the last operation
  model_step,                 \* number of optimizer steps applied to the model
  checkpoint,                 \* file at self.model_path
  epoch,                      \* number of epochs executed by this train()
  epochs_without_improvement,
  best_val_loss,              \* local of train(); self.best_val_loss of
                              \* line 91 is never read or written again
  val_loss,
  batch_losses,               \* validation batch losses of the last epoch
  n_train_batches, n_valid_batches,  \* len(train_loader), len(valid_loader)
  train_dset_len, valid_dset_len,    \* rows behind the two loaders
  val_hist,                   \* validation loss of each epoch of this train()
  step_hist,                  \* model_step at the end of each such epoch
  log_prob_rounds,            \* rounds of run() in which model.log_prob was
                              \* invoked
  log_prob_from,              \* the function that invoked model.log_prob last
  mcmc_args,                  \* arguments MCMC(...) was built with
  last_add,                   \* row counts of the last add_data call
  appended,                   \* rows passed to add_data so far
  aligned                     \* every add_data call so far was row-aligned

store == <<train_data, train_params, valid_data, valid_params>>
trainer == <<model_step, checkpoint, epoch, epochs_without_improvement,
             best_val_loss, val_loss, batch_losses, n_train_batches,
             n_valid_batches, train_dset_len, valid_dset_len, val_hist,
             step_hist>>
sampler == <<log_prob_rounds, log_prob_from, mcmc_args>>
ghost == <<last_add, appended, aligned>>
vars == <<cfg, store, pc, in_run, r, prior_samples, sims, err, trainer,
          sampler, ghost>>

\* ----------------------------------------------------------- pure helpers
Inf == <<1, 0>>

\* a < b for losses <<numerator, denominator>>, denominators >= 0
Less(a, b) == a[1] * b[2] < b[1] * a[2]

RECURSIVE SumSeq(_)
SumSeq(s) == IF Len(s) = 0 THEN 0 ELSE Head(s) + SumSeq(Tail(s))

Perms(n) == { p \in [1..n -> 1..n] : \A i, j \in 1..n : p[i] = p[j] => i = j }

SeqsUpTo(S, n) == UNION { [1..k -> S] : k \in 0..n }

\* s[ix] of the source: the rows of s selected by the index sequence ix
Take(s, ix) == [i \in 1..Len(ix) |-> s[ix[i]]]

InRange(ix, n) == \A i \in 1..Len(ix) : ix[i] <= n

\* scaler.transform validates its argument first: a StandardScaler raises
\* ValueError on an array of 0 rows
ScalerAccepts(data) == Len(data) >= 1

\* scaler.transform: a StandardScaler fitted with mean_ = 1, scale_ = 1
ScalerTransform(data) == [i \in 1..Len(data) |-> data[i] - 1]

\* m = int(self.valid_fraction * n)
NumValidCeil(vf, n) == (vf[1] * n + vf[2] - 1) \div vf[2]
NumValid(vf, n) == (vf[1] * n) \div vf[2]

\* valid_idx = idx[:m] and train_idx = idx[m:]
ValidIdx(idx, m) == SubSeq(idx, 1, m)
TrainIdxAll(idx, m) == idx
TrainIdx(idx, m) == SubSeq(idx, m + 1, Len(idx))

\* torch.cat([self.data[...], rows], dim=0)
ConcatRescaled(stored, rows) == ScalerTransform(stored) \o rows
Concat(stored, rows) == stored \o rows

\* torch.cat(self.sims_per_model*[params])
ExpandInterleaved(params, k) ==
  [i \in 1..(k * Len(params)) |-> params[((i - 1) \div k) + 1]]
Expand(params, k) ==
  [i \in 1..(k * Len(params)) |-> params[((i - 1) % Len(params)) + 1]]

\* self.simulator(params, ...) followed by the reshape of line 145, for a stub
\* simulator whose observation of a parameter row p is 10 * p; a row beyond
\* the parameter rows is 10 times its own index
SimulatorRows(params, rows) ==
  [i \in 1..rows |-> 10 * (IF i <= Len(params) THEN params[i] ELSE i)]

\* r == 0 of run()
PriorOnlyThroughRoundOne(rr) == rr <= 1
PriorOnly(rr) == rr = 0

\* self.hmc(num_samples=num_samples) as called by sample_prior
HmcArgs(c, num) ==
  [num_samples |-> num, walker_steps |-> HmcWalkerStepsDefault,
   burn_in |-> HmcBurnInDefault]

\* hmc(num_samples, walker_steps, burn_in): MCMC(..., num_samples=walker_steps,
\* warmup_steps=burn_in, ...) and mcmc.get_samples(num_samples)
HmcCall(num, walker, burn) ==
  [num_samples |-> num, walker_steps |-> walker, burn_in |-> burn]

\* the calls of hmc and sample_posterior a caller makes: walker_steps and
\* burn_in left at their defaults, or both given
HmcCallVals ==
  { HmcCall(num, HmcWalkerStepsDefault, HmcBurnInDefault) : num \in NumSamplesVals }
    \cup { HmcCall(num, 7, 2) : num \in NumSamplesVals }

\* len(DataLoader(dset, batch_size, drop_last=True))
NumBatchesKeepLast(rows, batch) == (rows + batch - 1) \div batch
NumBatches(rows, batch) == rows \div batch

\* rows of the TensorDataset of make_loaders, given the stored rows and the
\* rows the last add_data stored in that partition
DsetRowsWindowed(stored, added) == added
DsetRows(stored, added) == stored

\* best_val_loss = np.inf at the start of train()
BestAtTrainStartPersistent(previous) == previous
BestAtTrainStart(previous) == Inf

\* val_loss < best_val_loss
ImprovedOrEqual(v, best) == ~Less(best, v)
Improved(v, best) == Less(v, best)

\* for r in range(self.n_rounds): another round follows round rr
MoreRoundsInclusive(rr, n) == rr + 1 <= n
MoreRounds(rr, n) == rr + 1 < n

\* an exception raised inside train() meets no handler in train() or run()
ErrorSwallowed(from) == "round_end"
ErrorPropagates(from) == "failed"

\* the model train() leaves in memory: the one of the last epoch; the
\* checkpoint is not loaded back
ModelAtReturn(current, saved) == current

\* epochs_without_improvement > self.patience
StopNowLate(cnt, patience) == cnt > patience + 1
StopNow(cnt, patience) == cnt > patience

NoCheckpoint ==
  [exists |-> FALSE, round |-> -1, epoch |-> -1, state |-> -1, loss |-> Inf]
NoAdd == [n_data |-> -1, n_params |-> -1, n_valid |-> -1, n_train |-> -1]

\* ------------------------------------------------------------------- Init
Init ==
  /\ cfg \in Configs
  /\ train_data = << >> /\ train_params = << >>
  /\ valid_data = << >> /\ valid_params = << >>
  /\ pc = "idle"
  /\ in_run = FALSE
  /\ r = 0
  /\ prior_samples = << >> /\ sims = << >>
  /\ err = "none"
  /\ model_step = 0
  /\ checkpoint = NoCheckpoint
  /\ epoch = 0
  /\ epochs_without_improvement = 0
  /\ best_val_loss = Inf
  /\ val_loss = Inf
  /\ batch_losses = << >>
  /\ n_train_batches = 0 /\ n_valid_batches = 0
  /\ train_dset_len = 0 /\ valid_dset_len = 0
  /\ val_hist = << >> /\ step_hist = << >>
  /\ log_prob_rounds = {}
  /\ log_prob_from = "none"
  /\ mcmc_args = [num_samples |-> 0, walker_steps |-> 0, burn_in |-> 0]
  /\ last_add = NoAdd
  /\ appended = 0
  /\ aligned = TRUE

\* ---------------------------------------------------------------- add_data
\* The body of add_data(data, params) with the permutation idx drawn by
\* sklearn.utils.shuffle.  params[train_idx] and params[valid_idx] raise
\* IndexError when an index is beyond the rows of params; the assignments of
\* the earlier lines have then already happened.  With a scaler, data of 0
\* rows raises ValueError at line 115, before anything is assigned.
DoAddData(data, params, idx) ==
  IF cfg.scaler /\ ~ScalerAccepts(data)
  THEN /\ err' = "ValueError"
       /\ last_add' = [n_data |-> Len(data), n_params |-> Len(params),
                       n_valid |-> 0, n_train |-> 0]
       /\ aligned' = (aligned /\ Len(data) = Len(params))
       /\ UNCHANGED <<store, appended>>
  ELSE
  LET d == IF cfg.scaler THEN ScalerTransform(data) ELSE data
      n == Len(d)
      m == NumValid(cfg.valid_fraction, n)
      valid_idx == ValidIdx(idx, m)
      train_idx == TrainIdx(idx, m)
      okTrain == InRange(train_idx, Len(params))
      okValid == InRange(valid_idx, Len(params))
  IN /\ train_data' = Concat(train_data, Take(d, train_idx))
     /\ train_params' = IF okTrain
                        THEN Concat(train_params, Take(params, train_idx))
                        ELSE train_params
     /\ valid_data' = IF okTrain THEN Concat(valid_data, Take(d, valid_idx))
                      ELSE valid_data
     /\ valid_params' = IF okTrain /\ okValid
                        THEN Concat(valid_params, Take(params, valid_idx))
                        ELSE valid_params
     /\ err' = IF okTrain /\ okValid THEN "none" ELSE "IndexError"
     /\ last_add' = [n_data |-> n, n_params |-> Len(params),
                     n_valid |-> m, n_train |-> n - m]
     /\ appended' = appended + n
     /\ aligned' = (aligned /\ n = Len(params))

\* A direct call of add_data on the object, with the observations of a stub
\* simulator that may return a wrong number of rows for params.  Calls are
\* made while the data rows, stored and new, are at most MaxStore.
ApiAddData ==
  /\ pc = "idle" /\ ~in_run
  /\ \E params \in SeqsUpTo(ParamVals, MaxApiRows), rows \in 0..MaxApiRows :
       /\ Len(train_data) + Len(valid_data) + rows <= MaxStore
       /\ \E idx \in Perms(rows) :
            DoAddData(SimulatorRows(params, rows), params, idx)
  /\ UNCHANGED <<cfg, pc, in_run, r, prior_samples, sims, trainer, sampler>>

\* ---------------------------------------------------------------- sampling
\* run() is not executing: it has not been called, or it has returned or
\* raised and its frame is gone
CallerHasControl == pc \in {"idle", "returned"}

\* the round of run() a call of model.log_prob belongs to, if any
CallRounds == IF CallerHasControl THEN {} ELSE {r}

\* the body of hmc: MCMC is built with args and run, and the potential
\* function model_wrapper invokes model.log_prob; no attribute of the object
\* is written
DoHmc(args) ==
  /\ mcmc_args' = args
  /\ log_prob_from' = "hmc"
  /\ log_prob_rounds' = log_prob_rounds \cup CallRounds

\* a direct call of hmc(num_samples, walker_steps, burn_in)
ApiHmc ==
  /\ CallerHasControl
  /\ \E call \in HmcCallVals :
       DoHmc(HmcCall(call.num_samples, call.walker_steps, call.burn_in))
  /\ UNCHANGED <<cfg, store, pc, in_run, r, prior_samples, sims, err, trainer,
                 ghost>>

\* a direct call of sample_posterior(num_samples, walker_steps, burn_in),
\* which passes its three arguments on to hmc
ApiSamplePosterior ==
  /\ CallerHasControl
  /\ \E call \in HmcCallVals :
       DoHmc(HmcCall(call.num_samples, call.walker_steps, call.burn_in))
  /\ UNCHANGED <<cfg, store, pc, in_run, r, prior_samples, sims, err, trainer,
                 ghost>>

\* a direct call of sample_prior(num_samples, prior_only): the prior alone, or
\* hmc with its default walker_steps and burn_in
ApiSamplePrior ==
  /\ CallerHasControl
  /\ \E num \in NumSamplesVals, prior_only \in BOOLEAN :
       IF prior_only THEN UNCHANGED sampler ELSE DoHmc(HmcArgs(cfg, num))
  /\ UNCHANGED <<cfg, store, pc, in_run, r, prior_samples, sims, err, trainer,
                 ghost>>

\* a direct call of log_posterior(params, prior_only): model.log_prob is
\* invoked unless prior_only
ApiLogPosterior ==
  /\ CallerHasControl
  /\ \E prior_only \in BOOLEAN :
       log_prob_from' = IF prior_only THEN log_prob_from ELSE "log_posterior"
  /\ UNCHANGED <<cfg, store, pc, in_run, r, prior_samples, sims, err, trainer,
                 log_prob_rounds, mcmc_args, ghost>>

\* ---------------------------------------------------------------- simulate
\* simulate(params): expanded is the stacked parameter block, rows the number
\* of rows the simulator returns after the reshape of line 145; line 146
SimulateOkAlways(expanded, rows) == TRUE
SimulateOk(expanded, rows) == Len(expanded) = rows

\* ---------------------------------------------------------------- run()
RunStart ==
  /\ pc = "idle" /\ ~in_run
  /\ in_run' = TRUE
  /\ r' = 0
  /\ pc' = IF cfg.n_rounds > 0 THEN "sample" ELSE "done"
  /\ UNCHANGED <<cfg, store, prior_samples, sims, err, trainer, sampler, ghost>>

\* lines 255-262: sample_prior, then make_plots (a no-op)
RunSample ==
  /\ pc = "sample"
  /\ LET num == IF r = 0 THEN cfg.num_initial_samples
                ELSE cfg.num_samples_per_round
     IN /\ \E s \in [1..num -> ParamVals] : prior_samples' = s
        /\ IF PriorOnly(r)
           THEN UNCHANGED sampler
           ELSE DoHmc(HmcArgs(cfg, num))
  /\ pc' = "simulate"
  /\ UNCHANGED <<cfg, store, in_run, r, sims, err, trainer, ghost>>

\* line 265
RunSimulate ==
  /\ pc = "simulate"
  /\ LET expanded == Expand(prior_samples, cfg.sims_per_model)
     IN \E rows \in {Len(expanded), Len(expanded) + 1,
                       cfg.sims_per_model * Len(expanded)} :
            IF SimulateOk(expanded, rows)
            THEN /\ sims' = SimulatorRows(expanded, rows)
                 /\ prior_samples' = expanded
                 /\ err' = "none"
                 /\ pc' = "add_data"
            ELSE /\ err' = "AssertionError"
                 /\ pc' = "failed"
                 /\ UNCHANGED <<sims, prior_samples>>
  /\ UNCHANGED <<cfg, store, in_run, r, trainer, sampler, ghost>>

\* line 267; the round's draws and observations are not read again
RunAddData ==
  /\ pc = "add_data"
  /\ \E idx \in Perms(Len(sims)) : DoAddData(sims, prior_samples, idx)
  /\ prior_samples' = << >> /\ sims' = << >>
  /\ pc' = "train"
  /\ UNCHANGED <<cfg, in_run, r, trainer, sampler>>

\* ---------------------------------------------------------------- train()
\* lines 166-176: make_loaders and the locals of train()
TrainBegin ==
  /\ pc = "train"
  /\ train_dset_len' = DsetRows(Len(train_data), last_add.n_train)
  /\ valid_dset_len' = DsetRows(Len(valid_data), last_add.n_valid)
  /\ n_train_batches' = NumBatches(train_dset_len', cfg.batch_size)
  /\ n_valid_batches' = NumBatches(valid_dset_len', cfg.batch_size)
  /\ best_val_loss' = BestAtTrainStart(best_val_loss)
  /\ epochs_without_improvement' = 0
  /\ epoch' = 0
  /\ val_hist' = << >> /\ step_hist' = << >>
  /\ pc' = IF cfg.max_n_epochs > 0 THEN "epoch" ELSE "round_end"
  /\ UNCHANGED <<cfg, store, in_run, r, prior_samples, sims, err, model_step,
                 checkpoint, val_loss, batch_losses, sampler, ghost>>

\* lines 177-205: one pass of the epoch loop
TrainEpoch ==
  /\ pc = "epoch"
  /\ \E losses \in [1..n_valid_batches -> LossVals] :
       LET v == <<SumSeq(losses), 1 + n_valid_batches>>
           steps == model_step + n_train_batches
           improved == Improved(v, best_val_loss)
           cnt == IF improved THEN epochs_without_improvement
                  ELSE epochs_without_improvement + 1
           last == StopNow(cnt, cfg.patience) \/ epoch + 1 >= cfg.max_n_epochs
           saved == IF improved THEN steps ELSE checkpoint.state
       IN /\ model_step' = IF last THEN ModelAtReturn(steps, saved) ELSE steps
          /\ val_loss' = v
          /\ batch_losses' = losses
          /\ checkpoint' = IF improved
                           THEN [exists |-> TRUE, round |-> r, epoch |-> epoch,
                                 state |-> steps, loss |-> v]
                           ELSE checkpoint
          /\ best_val_loss' = IF improved THEN v ELSE best_val_loss
          /\ epochs_without_improvement' = cnt
          /\ val_hist' = Append(val_hist, v)
          /\ step_hist' = Append(step_hist, steps)
          /\ epoch' = epoch + 1
          /\ pc' = IF last THEN "round_end" ELSE "epoch"
  /\ UNCHANGED <<cfg, store, in_run, r, prior_samples, sims, err,
                 n_train_batches, n_valid_batches, train_dset_len,
                 valid_dset_len, sampler, ghost>>

\* lines 178-192: self.model._loss raises on a batch of the epoch, after `done`
\* optimizer steps of the epoch (on a validation batch once all training
\* batches are done); nothing in train() or run() catches it
TrainEpochFails ==
  /\ pc = "epoch"
  /\ \E done \in 0..n_train_batches :
       /\ done < n_train_batches \/ n_valid_batches >= 1
       /\ model_step' = model_step + done
  /\ err' = "LossError"
  /\ pc' = ErrorPropagates("train")
  /\ UNCHANGED <<cfg, store, in_run, r, prior_samples, sims, checkpoint, epoch,
                 epochs_without_improvement, best_val_loss, val_loss,
                 batch_losses, n_train_batches, n_valid_batches,
                 train_dset_len, valid_dset_len, val_hist, step_hist, sampler,
                 ghost>>

\* train() has returned: lines 272-276 and the next iteration of the for loop.
\* The loaders and the per-epoch records of the finished call are gone.
RunRoundEnd ==
  /\ pc = "round_end"
  /\ r' = r + 1
  /\ pc' = IF MoreRounds(r, cfg.n_rounds) THEN "sample" ELSE "done"
  /\ epoch' = 0 /\ epochs_without_improvement' = 0
  /\ batch_losses' = << >>
  /\ n_train_batches' = 0 /\ n_valid_batches' = 0
  /\ train_dset_len' = 0 /\ valid_dset_len' = 0
  /\ val_hist' = << >> /\ step_hist' = << >>
  /\ UNCHANGED <<cfg, store, in_run, prior_samples, sims, err, model_step,
                 checkpoint, best_val_loss, val_loss, sampler, ghost>>

\* run() hands control back to its caller, by the end of the for loop or by
\* the exception that no handler caught; the locals of run() and of train()
\* go with their frames, the attributes of the object and the file stay
RunReturn ==
  /\ pc \in {"done", "failed"}
  /\ pc' = "returned"
  /\ in_run' = FALSE
  /\ r' = 0
  /\ prior_samples' = << >> /\ sims' = << >>
  /\ epoch' = 0 /\ epochs_without_improvement' = 0
  /\ best_val_loss' = Inf /\ val_loss' = Inf
  /\ batch_losses' = << >>
  /\ n_train_batches' = 0 /\ n_valid_batches' = 0
  /\ train_dset_len' = 0 /\ valid_dset_len' = 0
  /\ val_hist' = << >> /\ step_hist' = << >>
  /\ UNCHANGED <<cfg, store, err, model_step, checkpoint, sampler, ghost>>

\* ------------------------------------------------------------------ specs
Next ==
  \/ RunStart
  \/ RunSample
  \/ RunSimulate
  \/ RunAddData
  \/ TrainBegin
  \/ TrainEpoch
  \/ TrainEpochFails
  \/ RunRoundEnd
  \/ RunReturn
  \/ ApiHmc
  \/ ApiSamplePosterior
  \/ ApiSamplePrior
  \/ ApiLogPosterior

Spec == Init /\ [][Next]_vars

NextApi ==
  \/ ApiAddData
  \/ ApiHmc
  \/ ApiSamplePosterior
  \/ ApiSamplePrior
  \/ ApiLogPosterior

\* add_data reads valid_fraction and scaler only
InitApi ==
  /\ Init
  /\ cfg.batch_size = 1 /\ cfg.patience = 0
  /\ cfg.sims_per_model = 1

SpecApi == InitApi /\ [][NextApi]_vars

\* ----------------------------------------------------------------- claims
\* the largest q with q <= f * n, for a fraction f = <<numerator, denominator>>
FloorOf(f, n) == CHOOSE q \in 0..n : q * f[2] <= f[1] * n /\ f[1] * n < (q + 1) * f[2]

\* C1: every row-aligned add_data call of n rows adds exactly
\* floor(valid_fraction * n) rows to the validation sequences and the other
\* n - floor(valid_fraction * n) rows to the training sequences, and as long as
\* every call was row-aligned train_rows + valid_rows is the number of rows
\* appended so far.
C1_SplitStep ==
  (appended' # appended /\ last_add'.n_data = last_add'.n_params) =>
    LET n == appended' - appended
        m == FloorOf(cfg.valid_fraction, n)
    IN /\ Len(valid_data') = Len(valid_data) + m
       /\ Len(valid_params') = Len(valid_params) + m
       /\ Len(train_data') = Len(train_data) + (n - m)
       /\ Len(train_params') = Len(train_params) + (n - m)
C1_SplitCounts ==
  /\ [](aligned => Len(train_data) + Len(valid_data) = appended)
  /\ [][C1_SplitStep]_vars
\* two aligned calls of 2 rows and 1 row with valid_fraction = 1/2
C1_Witness ==
  /\ aligned /\ appended = 3 /\ last_add.n_data = 1
  /\ cfg.valid_fraction = <<1, 2>>
  /\ Len(valid_data) = 1 /\ Len(train_data) = 2

InTrainOrLater == pc \in {"simulate", "add_data", "train", "epoch", "round_end"}

\* C2: round 0 of run() never invokes model.log_prob, and every round r >= 1
\* has invoked it by the time its simulate, add_data and train steps begin.
C2_LogProbRounds ==
  /\ 0 \notin log_prob_rounds
  /\ (in_run /\ r >= 1 /\ InTrainOrLater) => r \in log_prob_rounds
C2_Witness ==
  /\ in_run /\ r = 1 /\ pc = "simulate"
  /\ log_prob_rounds = {1}

\* C6: simulate returns k*m data rows and k*m parameter rows that are k stacked
\* copies of the m input rows, in their original order.
C6_StackedStep ==
  (pc = "simulate" /\ pc' = "add_data") =>
    LET m == Len(prior_samples)
        k == cfg.sims_per_model
    IN /\ Len(sims') = k * m
       /\ Len(prior_samples') = k * m
       /\ \A copy \in 0..(k - 1) : \A i \in 1..m :
            prior_samples'[copy * m + i] = prior_samples[i]
C6_Stacked == [][C6_StackedStep]_vars
\* two different rows simulated twice: the block a, b, a, b
C6_Witness ==
  /\ pc = "add_data" /\ cfg.sims_per_model = 2
  /\ Len(prior_samples) = 4 /\ Len(sims) = 4
  /\ prior_samples[1] # prior_samples[2]
  /\ prior_samples[3] = prior_samples[1] /\ prior_samples[4] = prior_samples[2]

\* rows the store holds once `rounds` rounds of run() have added their data
RowsAfterRounds(rounds) ==
  IF rounds = 0 THEN 0
  ELSE cfg.sims_per_model
         * (cfg.num_initial_samples + (rounds - 1) * cfg.num_samples_per_round)

\* C7: after round r of run() the store holds
\* sims_per_model * (num_initial_samples + r * num_samples_per_round) rows over
\* train and validation, and the loaders of round r's train() are built over
\* all of the accumulated rows.
C7_CumulativeRows ==
  in_run =>
    /\ pc \in {"train", "epoch", "round_end"} =>
         Len(train_data) + Len(valid_data) = RowsAfterRounds(r + 1)
    /\ pc \in {"sample", "done"} =>
         Len(train_data) + Len(valid_data) = RowsAfterRounds(r)
    /\ pc \in {"epoch", "round_end"} =>
         /\ train_dset_len = Len(train_data)
         /\ valid_dset_len = Len(valid_data)
         /\ train_dset_len + valid_dset_len = RowsAfterRounds(r + 1)
C7_Witness ==
  /\ in_run /\ r = 1 /\ pc = "round_end"
  /\ cfg.num_samples_per_round = 1 /\ cfg.sims_per_model = 2
  /\ train_dset_len + valid_dset_len = 6
  /\ last_add.n_data = 2

\* ---- the trainer, stated over the validation losses of one train() call
\* epoch i (1-based) of h is strictly below every earlier epoch of the call
ImprovesAt(h, i) == \A j \in 1..(i - 1) : Less(h[i], h[j])
NumImproving(h) == Cardinality({i \in 1..Len(h) : ImprovesAt(h, i)})
\* some run of more than `patience` consecutive epochs of h without improvement
HasStall(h, patience) ==
  \E s \in 1..Len(h) :
    /\ s + patience <= Len(h)
    /\ \A i \in s..(s + patience) : ~ImprovesAt(h, i)
\* the first epoch (1-based) that attains the lowest validation loss of h
FirstBest(h) ==
  CHOOSE i \in 1..Len(h) :
    /\ \A j \in 1..Len(h) : ~Less(h[j], h[i])
    /\ \A j \in 1..(i - 1) : Less(h[i], h[j])

\* the epoch loop goes on only while the stall counter is within patience and
\* epochs remain, and train() returns once either fails
StopsAtFirstExcess ==
  /\ pc = "epoch" =>
       /\ epochs_without_improvement <= cfg.patience
       /\ epoch < cfg.max_n_epochs
  /\ pc = "round_end" =>
       /\ epoch >= 1 /\ epoch <= cfg.max_n_epochs /\ epoch = Len(val_hist)
       /\ epochs_without_improvement > cfg.patience \/ epoch = cfg.max_n_epochs

\* C3 as stated: training stops at the first epoch whose stall counter exceeds
\* patience or after max_n_epochs epochs, and whenever the validation loss
\* fails to improve for more than patience consecutive epochs the last
\* executed epoch has 0-based index at most patience + 1.
C3_AsStated ==
  /\ StopsAtFirstExcess
  /\ (pc = "round_end" /\ HasStall(val_hist, cfg.patience)) =>
       epoch - 1 <= cfg.patience + 1

\* C3 (amended): training stops at the first epoch whose stall counter exceeds
\* patience or after max_n_epochs epochs; the last executed epoch has 0-based
\* index at most patience plus the number of improving epochs of the call, so
\* at most patience + 1 when no epoch after the first improves.
C3_EarlyStop ==
  /\ StopsAtFirstExcess
  /\ pc = "round_end" =>
       /\ epoch - 1 <= cfg.patience + NumImproving(val_hist)
       /\ (\A i \in 2..Len(val_hist) : ~ImprovesAt(val_hist, i)) =>
            epoch - 1 <= cfg.patience + 1
\* stopped by the stall counter at index patience + 1, with an epoch to spare
C3_Witness ==
  /\ pc = "round_end" /\ cfg.patience = 0
  /\ epoch = 2 /\ epoch < cfg.max_n_epochs /\ epochs_without_improvement = 1
  /\ \A i \in 2..Len(val_hist) : ~ImprovesAt(val_hist, i)
  /\ n_valid_batches >= 1

\* C4: when train() returns the checkpoint holds the model state of the first
\* epoch of that call with the lowest validation loss; the checkpoint is
\* written exactly at the epochs whose loss is strictly below every earlier
\* epoch of the call, and once written it is never removed.
C4_AtReturn ==
  pc = "round_end" =>
    /\ checkpoint.exists
    /\ checkpoint.round = r
    /\ checkpoint.epoch = FirstBest(val_hist) - 1
    /\ checkpoint.state = step_hist[FirstBest(val_hist)]
C4_WriteStep ==
  /\ epoch' = epoch + 1 =>
       ((checkpoint' # checkpoint) <=> ImprovesAt(val_hist', Len(val_hist')))
  /\ epoch' # epoch + 1 => checkpoint' = checkpoint
  /\ checkpoint.exists => checkpoint'.exists
C4_BestCheckpoint == [](C4_AtReturn) /\ [][C4_WriteStep]_vars
\* the best epoch is not the last one, its loss is repeated later, and the
\* model has moved on since
C4_Witness ==
  /\ pc = "round_end" /\ epoch = 3
  /\ checkpoint.epoch = 1
  /\ val_hist[3] = val_hist[2]
  /\ checkpoint.state # model_step

\* C5 as stated: the best validation loss is never reset, so it never rises
\* over the epochs of all rounds, and the first checkpoint a later round
\* writes is strictly below the loss of the checkpoint it replaces.
C5_AsStatedStep ==
  /\ pc' # "returned" => ~Less(best_val_loss, best_val_loss')
  /\ (checkpoint' # checkpoint /\ checkpoint.exists) =>
       Less(checkpoint'.loss, checkpoint.loss)
C5_AsStated == [][C5_AsStatedStep]_vars

\* C5 (amended): the best validation loss is set to infinity at the start of
\* every train() call and never rises during the call, so an epoch overwrites
\* the checkpoint exactly when its loss is strictly below the loss of every
\* earlier epoch of the same call, whatever earlier rounds reached.
C5_PerCallStep ==
  /\ pc = "train" => best_val_loss' = Inf
  /\ pc = "epoch" => ~Less(best_val_loss, best_val_loss')
  /\ epoch' = epoch + 1 =>
       /\ best_val_loss' = val_hist'[FirstBest(val_hist')]
       /\ (checkpoint' # checkpoint) <=>
            (\A j \in 1..Len(val_hist) : Less(val_loss', val_hist[j]))
C5_PerCallBest == [][C5_PerCallStep]_vars
\* round 1 has overwritten the checkpoint of round 0 with a loss that is not
\* below the best of round 0
C5_Witness ==
  /\ in_run /\ r = 1 /\ pc = "epoch" /\ epoch = 1
  /\ checkpoint.round = 1
  /\ Less(<<1, 2>>, checkpoint.loss)
  /\ cfg.batch_size = 1 /\ valid_dset_len = 1

\* C8: an add_data call whose data and params differ in row count raises
\* ShapeMismatch and leaves the four sequences of the store as they were.
C8_MismatchStep ==
  last_add'.n_data # last_add'.n_params =>
    /\ err' = "ShapeMismatch"
    /\ store' = store
C8_ShapeMismatch == [][C8_MismatchStep]_vars

\* C9: train() runs no epoch unless both partitions hold at least batch_size
\* rows, so no epoch has zero training batches or zero validation batches;
\* with fewer rows make_loaders raises InsufficientData.
C9_NoEmptyEpoch ==
  /\ pc = "epoch" =>
       /\ train_dset_len >= cfg.batch_size /\ valid_dset_len >= cfg.batch_size
       /\ n_train_batches >= 1 /\ n_valid_batches >= 1
  /\ (in_run /\ pc \in {"epoch", "round_end"}
        /\ (Len(train_data) < cfg.batch_size \/ Len(valid_data) < cfg.batch_size)) =>
       err = "InsufficientData"

\* C10: in every round r >= 1 the MCMC procedure is built with the configured
\* mcmc_steps as its number of steps and the configured mcmc_discard as its
\* number of warm-up steps.
C10_ConfiguredMcmc ==
  (in_run /\ r >= 1 /\ r \in log_prob_rounds) =>
    /\ mcmc_args.walker_steps = cfg.mcmc_steps
    /\ mcmc_args.burn_in = cfg.mcmc_discard

\* C11: an epoch whose validation loss strictly improves on the best of the
\* call resets the stall counter to zero, so early stopping fires only after
\* more than patience consecutive epochs without improvement.
C11_ResetStep ==
  (pc = "epoch" /\ pc' \in {"epoch", "round_end"}) =>
    /\ ImprovesAt(val_hist', Len(val_hist')) => epochs_without_improvement' = 0
    /\ (pc' = "round_end" /\ epoch' < cfg.max_n_epochs) =>
         HasStall(val_hist', cfg.patience)
C11_ResetOnImprovement == [][C11_ResetStep]_vars

\* C12: the validation loss compared with the best loss after an epoch is the
\* mean of the epoch's validation batch losses, their sum divided by the
\* number of validation batches, and the optimizer steps of the epoch are
\* those of its training batches only.
C12_MeanStep ==
  (pc = "epoch" /\ pc' \in {"epoch", "round_end"} /\ n_valid_batches >= 1) =>
    /\ val_loss'[1] * n_valid_batches = SumSeq(batch_losses') * val_loss'[2]
    /\ model_step' = model_step + n_train_batches
C12_MeanValidationLoss == [][C12_MeanStep]_vars

\* ---- the store, stated over the rows one add_data call receives
\* the rows of s after its first n rows
RowsAfter(s, n) == SubSeq(s, n + 1, Len(s))
\* the row pairs <<data row, params row>> of two row-aligned sequences
PairsOf(d, p) == [i \in 1..Len(d) |-> <<d[i], p[i]>>]
CountIn(x, s) == Cardinality({i \in 1..Len(s) : s[i] = x})
IsPrefix(s, t) == Len(s) <= Len(t) /\ SubSeq(t, 1, Len(s)) = s
\* a data row as it is stored: through the scaler once, if one is configured
StoredForm(x) == IF cfg.scaler THEN x - 1 ELSE x

\* C13: after row-aligned add_data calls train_data and train_params have
\* equal length, as have valid_data and valid_params, and every row pair of a
\* call's input is stored exactly once, as a pair, in exactly one of the two
\* partitions, nothing else being stored.
C13_PairingStep ==
  (pc = "add_data" /\ pc' = "train") =>
    LET input == PairsOf([i \in 1..Len(sims) |-> StoredForm(sims[i])],
                         prior_samples)
        newTrain == PairsOf(RowsAfter(train_data', Len(train_data)),
                            RowsAfter(train_params', Len(train_params)))
        newValid == PairsOf(RowsAfter(valid_data', Len(valid_data)),
                            RowsAfter(valid_params', Len(valid_params)))
        seen == {input[i] : i \in 1..Len(input)}
                  \cup {newTrain[i] : i \in 1..Len(newTrain)}
                  \cup {newValid[i] : i \in 1..Len(newValid)}
    IN \A x \in seen :
         CountIn(x, newTrain) + CountIn(x, newValid) = CountIn(x, input)
C13_Pairing ==
  /\ [](aligned => /\ Len(train_data) = Len(train_params)
                   /\ Len(valid_data) = Len(valid_params))
  /\ [][C13_PairingStep]_vars
\* two different rows went to different partitions
C13_Witness ==
  /\ in_run /\ pc = "train" /\ r = 0
  /\ Len(train_params) = 1 /\ Len(valid_params) = 1
  /\ train_params[1] # valid_params[1]
  /\ train_data[1] = StoredForm(10 * train_params[1])
  /\ valid_data[1] = StoredForm(10 * valid_params[1])

\* C14: every add_data call keeps the rows already stored, unchanged and in
\* place, so each sequence is a prefix of what it becomes; the scaler is
\* applied once to the rows of the call and never to stored rows; no other
\* step of run() changes the store.
C14_FrameStep ==
  /\ IsPrefix(train_data, train_data') /\ IsPrefix(train_params, train_params')
  /\ IsPrefix(valid_data, valid_data') /\ IsPrefix(valid_params, valid_params')
  /\ pc # "add_data" => store' = store
  /\ pc = "add_data" =>
       \A x \in {RowsAfter(train_data', Len(train_data))[i] :
                   i \in 1..(Len(train_data') - Len(train_data))}
                \cup {RowsAfter(valid_data', Len(valid_data))[i] :
                   i \in 1..(Len(valid_data') - Len(valid_data))} :
         \E j \in 1..Len(sims) : x = StoredForm(sims[j])
C14_StoreOnlyGrows == [][C14_FrameStep]_vars
\* the second call of a run with a scaler, on top of the rows of the first
C14_Witness ==
  /\ in_run /\ r = 1 /\ pc = "train" /\ cfg.scaler
  /\ Len(train_data) + Len(valid_data) = 3
  /\ \A i \in 1..Len(train_data) : train_data[i] = 10 * train_params[i] - 1

\* the steps run() takes from one position to the next, its return included
RunOrder ==
  { <<"idle", "sample">>, <<"sample", "simulate">>, <<"simulate", "add_data">>,
    <<"simulate", "failed">>, <<"add_data", "train">>, <<"train", "epoch">>,
    <<"epoch", "epoch">>, <<"epoch", "round_end">>, <<"epoch", "failed">>,
    <<"round_end", "sample">>, <<"round_end", "done">>,
    <<"done", "returned">>, <<"failed", "returned">> }

\* C15: run() goes through its rounds one after the other, each in the order
\* sample, simulate, add_data, train; a round starts only once the train() of
\* the round before has returned, the model changes only inside train(), and
\* a run that comes to its end has gone through exactly n_rounds rounds.
C15_OrderStep ==
  /\ <<pc, pc'>> \in RunOrder \/ (CallerHasControl /\ pc' = pc)
  /\ r' # r => ((pc = "round_end" /\ r' = r + 1) \/ pc' = "returned")
  /\ model_step' # model_step => pc = "epoch"
  /\ log_prob_rounds' # log_prob_rounds => pc = "sample"
  /\ (mcmc_args' # mcmc_args \/ log_prob_from' # log_prob_from) =>
       (pc = "sample" \/ CallerHasControl)
C15_RoundOrder ==
  /\ [](pc = "sample" => r < cfg.n_rounds)
  /\ [](pc = "done" => (r = cfg.n_rounds /\ checkpoint.round = cfg.n_rounds - 1))
  /\ [][C15_OrderStep]_vars
C15_Witness ==
  /\ pc = "done" /\ r = cfg.n_rounds /\ r >= 2
  /\ log_prob_rounds = 1..(r - 1)
  /\ err = "none"

\* C16: when train() fails in round r the run ends there: no step follows, the
\* store keeps the rows round r appended, and the checkpoint is the last one
\* written, that of the best epoch so far of round r if round r completed an
\* epoch.
C16_FailStep ==
  /\ (pc = "epoch" /\ err' = "LossError") =>
       /\ pc' = "failed"
       /\ store' = store /\ checkpoint' = checkpoint /\ r' = r
  /\ pc \in {"failed", "returned"} =>
       /\ pc' = "returned"
       /\ store' = store /\ checkpoint' = checkpoint /\ err' = err
       /\ model_step' = model_step
C16_AtFailure ==
  (pc = "failed" /\ err = "LossError") =>
    /\ Len(train_data) + Len(valid_data) = RowsAfterRounds(r + 1)
    /\ IF Len(val_hist) >= 1
       THEN /\ checkpoint.round = r
            /\ checkpoint.epoch = FirstBest(val_hist) - 1
       ELSE IF r = 0 THEN ~checkpoint.exists ELSE checkpoint.round = r - 1
C16_TrainFailureAborts == [](C16_AtFailure) /\ [][C16_FailStep]_vars
\* round 1 fails after it has already replaced the checkpoint of round 0
C16_Witness ==
  /\ pc = "failed" /\ err = "LossError" /\ r = 1
  /\ Len(val_hist) >= 1 /\ checkpoint.round = 1
  /\ Len(train_data) + Len(valid_data) = RowsAfterRounds(2)

\* C17: simulate returns only with as many observation rows as expanded
\* parameter rows; otherwise it fails, add_data and train do not run for that
\* round, no later round starts, and the store and the checkpoint stay as the
\* round before left them.
C17_FailStep ==
  /\ (pc = "simulate" /\ pc' = "failed") =>
       /\ err' = "AssertionError"
       /\ store' = store /\ checkpoint' = checkpoint
       /\ model_step' = model_step /\ r' = r
  /\ (pc \in {"failed", "returned"} /\ err = "AssertionError") =>
       /\ pc' = "returned" /\ err' = "AssertionError"
       /\ <<store, checkpoint, model_step, appended>>' =
            <<store, checkpoint, model_step, appended>>
C17_AtFailure ==
  /\ pc = "add_data" => Len(sims) = Len(prior_samples)
  /\ (pc = "failed" /\ err = "AssertionError") =>
       /\ Len(train_data) + Len(valid_data) = RowsAfterRounds(r)
       /\ IF r = 0 THEN ~checkpoint.exists ELSE checkpoint.round = r - 1
C17_SimulatorViolation == [](C17_AtFailure) /\ [][C17_FailStep]_vars
C17_Witness ==
  /\ pc = "failed" /\ err = "AssertionError" /\ r = 1
  /\ checkpoint.round = 0
  /\ Len(train_data) + Len(valid_data) = RowsAfterRounds(1)
  /\ Len(prior_samples) = cfg.num_samples_per_round

OutsideEpochLoop == pc \in {"round_end", "sample", "simulate", "add_data", "train"}

\* C18: train() returns with the model of its last epoch in memory, no later
\* step before the next train() changes it, and whenever the best epoch is not
\* the last one that model differs from the checkpointed state.
C18_AsStatedAtReturn ==
  pc = "round_end" =>
    /\ model_step = step_hist[Len(step_hist)]
    /\ checkpoint.epoch # epoch - 1 => model_step # checkpoint.state
C18_AsStated ==
  /\ [](C18_AsStatedAtReturn)
  /\ [][OutsideEpochLoop => model_step' = model_step]_vars

MinOf(a, b) == IF a <= b THEN a ELSE b

\* C19: with fewer validation rows than batch_size the validation loader
\* yields no batch and train() goes on without an error; every epoch's
\* validation loss is 0, only epoch 0 writes the checkpoint, every later epoch
\* counts as a stall, and the last epoch has 0-based index patience + 1, or
\* max_n_epochs - 1 if that is smaller.
C19_EmptyValidation ==
  (pc \in {"epoch", "round_end"} /\ valid_dset_len < cfg.batch_size) =>
    /\ n_valid_batches = 0
    /\ err = "none"
    /\ \A i \in 1..Len(val_hist) : val_hist[i] = <<0, 1>>
    /\ epoch >= 1 =>
         /\ val_loss = <<0, 1>>
         /\ checkpoint.round = r /\ checkpoint.epoch = 0
         /\ checkpoint.state = step_hist[1]
         /\ epochs_without_improvement = epoch - 1
    /\ pc = "round_end" =>
         epoch - 1 = MinOf(cfg.patience + 1, cfg.max_n_epochs - 1)
\* one validation row, batches of two, stopped early
C19_Witness ==
  /\ pc = "round_end" /\ cfg.batch_size = 2 /\ valid_dset_len = 1
  /\ cfg.patience = 0 /\ epoch = 2 /\ epoch < cfg.max_n_epochs
  /\ n_train_batches >= 1

====
